---- MODULE Spec2Model ----
(***************************************************************************)
(* Futaba S.bus serial decoder: apps/px4io/sbus.c                          *)
(*                                                                         *)
(* State: the module statics (sbus_fd, last_rx_time, last_frame_time,      *)
(* frame[], partial_frame_count, sbus_frame_drops), the fields of          *)
(* system_state written by sbus_decode, the high-resolution clock and the  *)
(* serial byte stream.  Operations: sbus_init, sbus_input (which calls     *)
(* sbus_decode) and the consumer that clears fmu_report_due.               *)
(***************************************************************************)
EXTENDS Integers, Sequences, FiniteSets, TLC

VARIABLES
    sbus_fd,                \* static int sbus_fd
    last_rx_time,           \* static hrt_abstime last_rx_time
    last_frame_time,        \* static hrt_abstime last_frame_time
    frame,                  \* static uint8_t frame[SBUS_FRAME_SIZE], a sequence of 25 bytes
    partial_frame_count,    \* static unsigned partial_frame_count
    sbus_frame_drops,       \* unsigned sbus_frame_drops
    rc_channels,            \* system_state.rc_channels
    rc_channel_data,        \* system_state.rc_channel_data[], indexed 0..17
    rc_channels_timestamp,  \* system_state.rc_channels_timestamp
    fmu_report_due,         \* system_state.fmu_report_due
    PX4IO_INPUT_CHANNELS,   \* build configuration of px4io.h, fixed for a run
    now,                    \* last value read from hrt_absolute_time()
    src,                    \* serial stream: frame being sent, bytes of it consumed
    rxlog,                  \* history: bytes read since the last discard point
    valid_time,             \* history: time of the last frame passing both checks, -1 if none
    ev,                     \* history: what the last call did and returned
    feed,                   \* history: bytes read since a call found the buffer empty
    twin,                   \* a second run of the decoder, with a history of its own
    clk,                    \* a stored timestamp, the time elapsed since, and the two tests
    strm                    \* history: the last bytes read from the stream

vars == <<sbus_fd, last_rx_time, last_frame_time, frame, partial_frame_count,
          sbus_frame_drops, rc_channels, rc_channel_data, rc_channels_timestamp,
          fmu_report_due, PX4IO_INPUT_CHANNELS, now, src, rxlog, valid_time, ev,
          feed, twin, clk, strm>>

(***************************************************************************)
(* Program constants                                                       *)
(***************************************************************************)
SBUS_FRAME_SIZE == 25
SBUS_INPUT_CHANNELS == 18

(***************************************************************************)
(* Bounds of the model                                                     *)
(***************************************************************************)
MaxTicks == 3

\* Clock readings the calls may observe (microseconds; the clock reads 0 at
\* boot): a run of 3 ms ticks after boot and three ticks 200 ms later.
LateInstants == {200000 + 3000 * k : k \in 1..3}
Instants == {3000 * k : k \in 1..MaxTicks} \cup LateInstants

\* The decoder specification reads the clock three times: sbus_init and two
\* frames, the second decoded over whatever state the first one left.
DecodeInstants == {3000, 6000, 9000}

\* Byte counts the serial driver may have buffered when read() is called;
\* -1 is a failed read, 0 an empty one.
Avail == {-1, 0, 13, 25}

\* The delivery specification polls every millisecond or slower and reads in
\* small chunks: one byte, seven bytes or whatever completes the frame.
MaxFeedTicks == 7
FeedInstants == {1000 * k : k \in 1..MaxFeedTicks}
FeedAvail == {-1, 0, 1, 7, 25}

\* The two-run specification: the second run decodes at most this many
\* buffers, at times of its own.
MaxTwinDecodes == 2
TwinAvail == {13, 25}

\* The clock-width specification: hrt_abstime as an unsigned counter of
\* ClockBits bits (wide enough for the 200 ms window), read at true times
\* that lie on both sides of its wrap.
ClockBits == 18
ClockMod == 2 ^ ClockBits
ClockStored ==
    {0, 1, 3000, 200000, ClockMod - 200001, ClockMod - 200000, ClockMod - 3001,
     ClockMod - 3000, ClockMod - 1, ClockMod, ClockMod + 5, 3 * ClockMod - 1}
ClockElapsed ==
    {0, 1, 2999, 3000, 3001, 199999, 200000, 200001, ClockMod - 3000, ClockMod - 1}

\* Builds of px4io.h the decoder is compiled against: the synchronizer
\* specification runs one of them, the decoder specification all of them.
StreamChannelConfigs == {18}
InputChannelConfigs == {12, 18, 20}

(***************************************************************************)
(* Unsigned bit arithmetic of C, on naturals                               *)
(***************************************************************************)
\* a & b; when either operand is 2^k - 1 the result is the other modulo 2^k
LowMasks == {1, 3, 7, 15, 31, 63, 127, 255}
RECURSIVE BitAnd(_, _)
BitAnd(a, b) ==
    IF a = 0 \/ b = 0 THEN 0
    ELSE IF b \in LowMasks THEN a % (b + 1)
    ELSE IF a \in LowMasks THEN b % (a + 1)
    ELSE (a % 2) * (b % 2) + 2 * BitAnd(a \div 2, b \div 2)

\* a | b, by the identity (a | b) + (a & b) = a + b
BitOr(a, b) == a + b - BitAnd(a, b)

Shr(x, n) == x \div (2 ^ n)
Shl(x, n) == x * (2 ^ n)
Min(a, b) == IF a < b THEN a ELSE b

(***************************************************************************)
(* The serial stream: S.bus frames produced by a transmitter.              *)
(* A frame is described by its sixteen raw 11-bit values v, its flag byte  *)
(* and its two marker bytes; Encode lays it out as 25 bytes.               *)
(***************************************************************************)
\* A frame description is the tuple <<c, x, bg, flags, start, end>>: channel c
\* carries the raw value x, the other fifteen carry bg.
Tmpl(c, x, bg, flags, start, end) == <<c, x, bg, flags, start, end>>
RawOf(t) == [k \in 0..15 |-> IF k = t[1] THEN t[2] ELSE t[3]]
FlagsOf(t) == t[4]
StartOf(t) == t[5]
EndOf(t) == t[6]

StreamBit(v, k) == (v[k \div 11] \div (2 ^ (k % 11))) % 2

PackByte(v, b) ==
    StreamBit(v, 8 * b)          + 2 * StreamBit(v, 8 * b + 1)
    + 4 * StreamBit(v, 8 * b + 2)  + 8 * StreamBit(v, 8 * b + 3)
    + 16 * StreamBit(v, 8 * b + 4) + 32 * StreamBit(v, 8 * b + 5)
    + 64 * StreamBit(v, 8 * b + 6) + 128 * StreamBit(v, 8 * b + 7)

\* The 25 bytes of a frame, as a sequence: start marker, 22 payload bytes,
\* flag byte, end marker.
Encode(t) ==
    << StartOf(t) >> \o [b \in 1..22 |-> PackByte(RawOf(t), b - 1)]
                    \o << FlagsOf(t), EndOf(t) >>

GoodFrame == Tmpl(0, 1024, 1024, 0, 15, 0)

\* Frames of the stream of the synchronizer specification.
StreamTemplates ==
    { GoodFrame,
      Tmpl(3, 2047, 682, 11, 15, 0),     \* failsafe bit only, both switch bits
      Tmpl(0, 1024, 1024, 12, 15, 0),    \* failsafe frame: both bits
      Tmpl(3, 2047, 682, 12, 15, 4) }    \* bad end marker, failsafe bits set

\* Frames of the stream of the delivery specification.
FeedTemplates == {GoodFrame, Tmpl(3, 2047, 682, 11, 15, 0)}

\* Frames both runs of the two-run specification decode.
TwinTemplates == StreamTemplates \cup {Tmpl(7, 2047, 0, 0, 15, 0)}

\* Frames of the decoder specification: every channel in turn carries a raw
\* value against a background of its complement, and each flag byte and
\* marker combination appears.
ValuePairs == { <<2047, 0>>, <<682, 1365>> }
FlagValues == {0, 1, 2, 3, 4, 8, 12, 15, 255}
DecodeTemplates ==
    { Tmpl(c, p[1], p[2], 0, 15, 0) : c \in 0..15, p \in ValuePairs }
    \cup { Tmpl(5, 1365, 682, fl, 15, 0) : fl \in FlagValues }
    \cup { Tmpl(5, 1365, 682, fl, 14, 0) : fl \in {0, 12} }
    \cup { Tmpl(5, 1365, 682, fl, 15, 128) : fl \in {0, 12} }

\* The byte sequence of every frame of the two families, tabulated once.
AllTemplates == StreamTemplates \cup DecodeTemplates
TemplateFrame == [t \in AllTemplates |-> Encode(t)] @@ << >>

\* The next k bytes of the stream, n being the frame sent after the current one.
StreamBytes(s, k, n) ==
    IF s.off + k <= 25 THEN SubSeq(TemplateFrame[s.cur], s.off + 1, s.off + k)
    ELSE SubSeq(TemplateFrame[s.cur] \o TemplateFrame[n], s.off + 1, s.off + k)

StreamAfter(s, k, n) ==
    IF k = 0 THEN s
    ELSE IF s.off + k <= 25 THEN [cur |-> s.cur, off |-> s.off + k]
    ELSE [cur |-> n, off |-> s.off + k - 25]

(***************************************************************************)
(* sbus_decoder: the bit-pick matrix.  The array is declared with          *)
(* SBUS_INPUT_CHANNELS rows and initialised for 16; rows 16 and 17 are     *)
(* zero-filled.                                                            *)
(***************************************************************************)
P(byte, rshift, mask, lshift) ==
    [byte |-> byte, rshift |-> rshift, mask |-> mask, lshift |-> lshift]

\* Row channel + 1 holds the three picks of C row channel.
sbus_decoder ==
    <<
       << P(0, 0, 255, 0),  P(1, 0, 7, 8),    P(0, 0, 0, 0) >>,   \* 0
       << P(1, 3, 31, 0),   P(2, 0, 63, 5),   P(0, 0, 0, 0) >>,   \* 1
       << P(2, 6, 3, 0),    P(3, 0, 255, 2),  P(4, 0, 1, 10) >>,   \* 2
       << P(4, 1, 127, 0),  P(5, 0, 15, 7),   P(0, 0, 0, 0) >>,   \* 3
       << P(5, 4, 15, 0),   P(6, 0, 127, 4),  P(0, 0, 0, 0) >>,   \* 4
       << P(6, 7, 1, 0),    P(7, 0, 255, 1),  P(8, 0, 3, 9) >>,   \* 5
       << P(8, 2, 63, 0),   P(9, 0, 31, 6),   P(0, 0, 0, 0) >>,   \* 6
       << P(9, 5, 7, 0),    P(10, 0, 255, 3), P(0, 0, 0, 0) >>,   \* 7
       << P(11, 0, 255, 0), P(12, 0, 7, 8),   P(0, 0, 0, 0) >>,   \* 8
       << P(12, 3, 31, 0),  P(13, 0, 63, 5),  P(0, 0, 0, 0) >>,   \* 9
       << P(13, 6, 3, 0),   P(14, 0, 255, 2), P(15, 0, 1, 10) >>,   \* 10
       << P(15, 1, 127, 0), P(16, 0, 15, 7),  P(0, 0, 0, 0) >>,   \* 11
       << P(16, 4, 15, 0),  P(17, 0, 127, 4), P(0, 0, 0, 0) >>,   \* 12
       << P(17, 7, 1, 0),   P(18, 0, 255, 1), P(19, 0, 3, 9) >>,   \* 13
       << P(19, 2, 63, 0),  P(20, 0, 31, 6),  P(0, 0, 0, 0) >>,   \* 14
       << P(20, 5, 7, 0),   P(21, 0, 255, 3), P(0, 0, 0, 0) >>,   \* 15
       << P(0, 0, 0, 0),    P(0, 0, 0, 0),    P(0, 0, 0, 0) >>,   \* 16 (zero-filled)
       << P(0, 0, 0, 0),    P(0, 0, 0, 0),    P(0, 0, 0, 0) >> >>  \* 17 (zero-filled)

(***************************************************************************)
(* sbus_decode                                                             *)
(***************************************************************************)
\* frame[i]: the buffer is kept as a sequence, C index i is element i + 1
Byte(f, i) == f[i + 1]

\* mutant: the two marker tests joined by && instead of ||
BadMarkers_and(f) == (Byte(f, 0) # 15) /\ (Byte(f, 24) # 0)

\* (frame[0] != 0x0f) || (frame[24] != 0x00)
BadMarkers(f) == (Byte(f, 0) # 15) \/ (Byte(f, 24) # 0)

\* mutant: either bit alone announces signal loss
FailsafeSet_or(f) ==
    (BitAnd(Byte(f, 23), Shl(1, 2)) # 0) \/ (BitAnd(Byte(f, 23), Shl(1, 3)) # 0)

\* mutant: the flag bits tested one position too high
FailsafeSet_shifted(f) ==
    (BitAnd(Byte(f, 23), Shl(1, 3)) # 0) /\ (BitAnd(Byte(f, 23), Shl(1, 4)) # 0)

\* (frame[23] & (1 << 2)) && (frame[23] & (1 << 3))
FailsafeSet(f) ==
    (BitAnd(Byte(f, 23), Shl(1, 2)) # 0) /\ (BitAnd(Byte(f, 23), Shl(1, 3)) # 0)

\* mutant: the channel count is not limited to SBUS_INPUT_CHANNELS
ChanCount_unclamped(maxch) == maxch

\* chancount = (PX4IO_INPUT_CHANNELS > SBUS_INPUT_CHANNELS) ? SBUS_INPUT_CHANNELS : PX4IO_INPUT_CHANNELS
ChanCount(maxch) == IF maxch > SBUS_INPUT_CHANNELS THEN SBUS_INPUT_CHANNELS ELSE maxch

\* mutant: the mask applied before the right shift
Piece_maskfirst(f, decode) ==
    IF decode.mask # 0
    THEN Shl(Shr(BitAnd(Byte(f, 1 + decode.byte), decode.mask), decode.rshift), decode.lshift)
    ELSE 0

\* one pick of the matrix applied to the frame
Piece(f, decode) ==
    IF decode.mask # 0
    THEN Shl(BitAnd(Shr(Byte(f, 1 + decode.byte), decode.rshift), decode.mask), decode.lshift)
    ELSE 0

\* value |= piece over the three picks of a channel
MatrixValue(f, channel) ==
    BitOr(BitOr(Piece(f, sbus_decoder[channel + 1][1]),
                Piece(f, sbus_decoder[channel + 1][2])),
          Piece(f, sbus_decoder[channel + 1][3]))

\* mutant: the raw value is not halved
Normalize_nohalf(value) == value + 998

\* (value / 2) + 998
Normalize(value) == (value \div 2) + 998

\* (frame[23] & (1 << bit)) * 1000 + 998
SwitchValue(f, bit) == BitAnd(Byte(f, 23), Shl(1, bit)) * 1000 + 998

\* mutant: each matrix channel is averaged with the value it held before
DecodedData_filtered(f, old, chancount) ==
    [c \in 0..(SBUS_INPUT_CHANNELS - 1) |->
        IF chancount > 17 /\ c = 16 THEN SwitchValue(f, 0)
        ELSE IF chancount > 17 /\ c = 17 THEN SwitchValue(f, 1)
        ELSE IF c < chancount THEN (old[c] + Normalize(MatrixValue(f, c))) \div 2
        ELSE old[c]]

\* system_state.rc_channel_data after the matrix loop and the switch channels
DecodedData(f, old, chancount) ==
    [c \in 0..(SBUS_INPUT_CHANNELS - 1) |->
        IF chancount > 17 /\ c = 16 THEN SwitchValue(f, 0)
        ELSE IF chancount > 17 /\ c = 17 THEN SwitchValue(f, 1)
        ELSE IF c < chancount THEN Normalize(MatrixValue(f, c))
        ELSE old[c]]

\* mutant: a failsafe frame also counts as a good frame
sbus_decode_stamp(st, f, frame_time, maxch) ==
    IF BadMarkers(f)
    THEN [st EXCEPT !.drops = st.drops + 1]
    ELSE IF FailsafeSet(f)
    THEN [st EXCEPT !.rc_channels = 0, !.last_frame_time = frame_time]
    ELSE [drops |-> st.drops,
          last_frame_time |-> frame_time,
          rc_channels |-> ChanCount(maxch),
          rc_channel_data |-> DecodedData(f, st.rc_channel_data, ChanCount(maxch)),
          rc_channels_timestamp |-> frame_time,
          fmu_report_due |-> TRUE]

\* The state sbus_decode(frame_time) leaves, from the state st it finds.
sbus_decode(st, f, frame_time, maxch) ==
    IF BadMarkers(f)
    THEN [st EXCEPT !.drops = st.drops + 1]
    ELSE IF FailsafeSet(f)
    THEN [st EXCEPT !.rc_channels = 0]
    ELSE [drops |-> st.drops,
          last_frame_time |-> frame_time,
          rc_channels |-> ChanCount(maxch),
          rc_channel_data |-> DecodedData(f, st.rc_channel_data, ChanCount(maxch)),
          rc_channels_timestamp |-> frame_time,
          fmu_report_due |-> TRUE]

(***************************************************************************)
(* sbus_input and sbus_init                                                *)
(*                                                                         *)
(* hrt_abstime is an unsigned 64-bit microsecond count.  The clock only    *)
(* moves forward from 0 and every stored time is an earlier reading, so    *)
(* the differences below are taken on naturals and never wrap.             *)
(***************************************************************************)
\* mutant: a gap of exactly 3000 us already counts as a timeout
GapExceeded_atleast(t, rx) == (t - rx) >= 3000

\* mutant: a frame timeout ten times too long
GapExceeded_late(t, rx) == (t - rx) > 30000

\* (now - last_rx_time) > 3000
GapExceeded(t, rx) == (t - rx) > 3000

\* mutant: a lock window ten times too long
Locked_late(t, ft) == (t - ft) < 2000000

\* (now - last_frame_time) < 200000
Locked(t, ft) == (t - ft) < 200000

\* The two time tests on an unsigned counter of ClockBits bits: the counter
\* reads the true time modulo 2^ClockBits and the subtraction of two
\* readings is taken modulo 2^ClockBits, as C does for an unsigned type.
ClockRead(t) == t % ClockMod
USub(a, b) == (a - b) % ClockMod

\* mutant: the readings are compared instead of subtracted
GapExceededWrapped_cmp(nowc, rxc) == nowc > (rxc + 3000) % ClockMod

\* (now - last_rx_time) > 3000
GapExceededWrapped(nowc, rxc) == USub(nowc, rxc) > 3000

\* (now - last_frame_time) < 200000
LockedWrapped(nowc, ftc) == USub(nowc, ftc) < 200000

\* mutant: the abandonment counts the drop and keeps the bytes
CountAfterGap_keep(abandon, count) == count

\* if (partial_frame_count > 0) { sbus_frame_drops++; partial_frame_count = 0; }
CountAfterGap(abandon, count) == IF abandon THEN 0 ELSE count

\* mutant: read() always asked for a whole frame
ReadRequest_whole(count) == SBUS_FRAME_SIZE

\* SBUS_FRAME_SIZE - partial_frame_count, the length passed to read()
ReadRequest(count) == SBUS_FRAME_SIZE - count

\* What read(sbus_fd, ..., req) returns when the driver holds avail bytes
\* (avail < 1: nothing buffered or an error; a closed descriptor fails).
ReadResult(fd, avail, req) ==
    IF fd < 0 THEN -1
    ELSE IF avail < 1 THEN avail
    ELSE Min(avail, req)

\* mutant: the time of the call is noted before the result of read() is tested
RxTime_always(rx, t, ret) == t

\* if (ret < 1) goto out; last_rx_time = now;
RxTime(rx, t, ret) == IF ret < 1 THEN rx ELSE t

\* mutant: read() always stores at the start of the buffer
StoreBytes_front(f, count, bytes) ==
    SubSeq(bytes \o SubSeq(f, Len(bytes) + 1, Len(f)), 1, SBUS_FRAME_SIZE)

\* frame[] after read() stored bytes at &frame[count]
StoreBytes(f, count, bytes) ==
    SubSeq(SubSeq(f, 1, count) \o bytes \o SubSeq(f, count + Len(bytes) + 1, Len(f)),
           1, SBUS_FRAME_SIZE)

\* A frame that passes the marker check and the failsafe check.
ValidFrame(f) ==
    /\ f[1] = 15
    /\ f[25] = 0
    /\ ~((f[24] \div 4) % 2 = 1 /\ (f[24] \div 8) % 2 = 1)

Event(op, abandoned, at, req, nread, decoded, locked) ==
    [op |-> op, abandoned |-> abandoned, at |-> at, req |-> req, nread |-> nread,
     decoded |-> decoded, locked |-> locked]

NoEvent(op) == Event(op, FALSE, 0, 0, 0, FALSE, FALSE)

\* The delivery in progress: the bytes read since a call found nothing
\* accumulated, whether every call since came at most 3 ms after the call
\* before it (calls_ok), and whether every call since came at most 3 ms
\* after the last read that returned bytes (rx_ok).  A delivery with both
\* flags false, or longer than a frame, is no longer followed.
NoFeed == [bytes |-> << >>, calls_ok |-> FALSE, rx_ok |-> FALSE]

FeedAfter(fd, count, t, prev_call, prev_rx, bytes) ==
    LET fresh    == count = 0
        calls_ok == fresh \/ (fd.calls_ok /\ t - prev_call <= 3000)
        rx_ok    == fresh \/ (fd.rx_ok /\ t - prev_rx <= 3000)
        all      == (IF fresh THEN << >> ELSE fd.bytes) \o bytes
    IN  IF Len(all) > SBUS_FRAME_SIZE \/ (~calls_ok /\ ~rx_ok)
        THEN NoFeed
        ELSE [bytes |-> all, calls_ok |-> calls_ok, rx_ok |-> rx_ok]

\* The stream as read: tail is the last bytes read() returned, up to a
\* frame's length of them, whatever became of them; since counts the bytes
\* read after the most recent abandonment, decode or sbus_init.
Suffix(s, k) == SubSeq(s, Len(s) - k + 1, Len(s))

StreamRead(sr, abandon, bytes) ==
    LET all   == sr.tail \o bytes
        since == IF abandon \/ sr.since >= SBUS_FRAME_SIZE THEN 0 ELSE sr.since
    IN  [tail  |-> Suffix(all, Min(Len(all), SBUS_FRAME_SIZE)),
         since |-> since + Len(bytes)]

DecodeState ==
    [drops |-> sbus_frame_drops,
     last_frame_time |-> last_frame_time,
     rc_channels |-> rc_channels,
     rc_channel_data |-> rc_channel_data,
     rc_channels_timestamp |-> rc_channels_timestamp,
     fmu_report_due |-> fmu_report_due]

InitStatics ==
    /\ sbus_fd = -1
    /\ last_rx_time = 0
    /\ last_frame_time = 0
    /\ frame = [i \in 1..SBUS_FRAME_SIZE |-> 0]
    /\ partial_frame_count = 0
    /\ sbus_frame_drops = 0
    /\ rc_channels = 0
    /\ rc_channel_data = [c \in 0..(SBUS_INPUT_CHANNELS - 1) |-> 0]
    /\ rc_channels_timestamp = 0
    /\ fmu_report_due = FALSE
    /\ now = 0
    /\ src = [cur |-> GoodFrame, off |-> 25]
    /\ rxlog = [bytes |-> << >>, at |-> -1]
    /\ valid_time = -1
    /\ ev = NoEvent("none")
    /\ feed = NoFeed
    /\ twin = [st |-> DecodeState, frame |-> << >>, decodes |-> 0]
    /\ clk = [stored |-> 0, elapsed |-> 0, gap |-> FALSE, locked |-> TRUE]
    /\ strm = [tail |-> << >>, since |-> 0]

Init == InitStatics /\ PX4IO_INPUT_CHANNELS \in StreamChannelConfigs

\* mutant: initialising the decoder also clears the drop counter
sbus_init_cleardrops(opened, t) ==
    LET fd == IF sbus_fd < 0 THEN (IF opened THEN 3 ELSE -1) ELSE sbus_fd
    IN  /\ t > now
        /\ sbus_fd' = fd
        /\ IF fd >= 0
           THEN /\ partial_frame_count' = 0
                /\ last_rx_time' = t
                /\ now' = t
                /\ rxlog' = [rxlog EXCEPT !.bytes = << >>]
                /\ sbus_frame_drops' = 0
           ELSE UNCHANGED <<partial_frame_count, last_rx_time, now, rxlog,
                            sbus_frame_drops>>
        /\ ev' = NoEvent("init")
        /\ feed' = IF fd >= 0 THEN NoFeed ELSE feed
        /\ strm' = IF fd >= 0 THEN [strm EXCEPT !.since = 0] ELSE strm
        /\ UNCHANGED <<last_frame_time, frame, rc_channels,
                       rc_channel_data, rc_channels_timestamp, fmu_report_due,
                       PX4IO_INPUT_CHANNELS, src, valid_time, twin, clk>>

\* sbus_init(device): opened tells whether open() succeeds when it is tried,
\* t is the clock reading taken when the descriptor is valid.
sbus_init(opened, t) ==
    LET fd == IF sbus_fd < 0 THEN (IF opened THEN 3 ELSE -1) ELSE sbus_fd
    IN  /\ t > now
        /\ sbus_fd' = fd
        /\ IF fd >= 0
           THEN /\ partial_frame_count' = 0
                /\ last_rx_time' = t
                /\ now' = t
                /\ rxlog' = [rxlog EXCEPT !.bytes = << >>]
           ELSE UNCHANGED <<partial_frame_count, last_rx_time, now, rxlog>>
        /\ ev' = NoEvent("init")
        /\ feed' = IF fd >= 0 THEN NoFeed ELSE feed
        /\ strm' = IF fd >= 0 THEN [strm EXCEPT !.since = 0] ELSE strm
        /\ UNCHANGED <<last_frame_time, frame, sbus_frame_drops, rc_channels,
                       rc_channel_data, rc_channels_timestamp, fmu_report_due,
                       PX4IO_INPUT_CHANNELS, src, valid_time, twin, clk>>

\* sbus_input(): t is the clock reading, avail the bytes the driver holds,
\* n the frame the transmitter sends after the current one.
sbus_input(t, avail, n) ==
    LET abandon == GapExceeded(t, last_rx_time) /\ partial_frame_count > 0
        count0  == CountAfterGap(abandon, partial_frame_count)
        drops0  == IF abandon THEN sbus_frame_drops + 1 ELSE sbus_frame_drops
        req     == ReadRequest(count0)
        ret     == ReadResult(sbus_fd, avail, req)
        bytes   == IF ret < 1 THEN << >> ELSE StreamBytes(src, ret, n)
        frame1  == StoreBytes(frame, count0, bytes)
        count1  == count0 + Len(bytes)
        full    == ret >= 1 /\ ~(count1 < SBUS_FRAME_SIZE)
        st      == IF full
                   THEN sbus_decode([DecodeState EXCEPT !.drops = drops0], frame1, t,
                                    PX4IO_INPUT_CHANNELS)
                   ELSE [DecodeState EXCEPT !.drops = drops0]
        \* history: the accumulation as the byte stream defines it
        stale   == Len(rxlog.bytes) >= SBUS_FRAME_SIZE
                   \/ (Len(rxlog.bytes) > 0 /\ t - rxlog.at > 3000)
        base    == IF stale THEN << >> ELSE rxlog.bytes
    IN  /\ t > now
        /\ (src.off + ret > SBUS_FRAME_SIZE \/ n = src.cur)
        /\ now' = t
        /\ frame' = frame1
        /\ last_rx_time' = RxTime(last_rx_time, t, ret)
        /\ partial_frame_count' = IF full THEN 0 ELSE count1
        /\ sbus_frame_drops' = st.drops
        /\ last_frame_time' = st.last_frame_time
        /\ rc_channels' = st.rc_channels
        /\ rc_channel_data' = st.rc_channel_data
        /\ rc_channels_timestamp' = st.rc_channels_timestamp
        /\ fmu_report_due' = st.fmu_report_due
        /\ src' = StreamAfter(src, Len(bytes), n)
        /\ rxlog' = IF ret < 1 THEN [rxlog EXCEPT !.bytes = base]
                    ELSE [bytes |-> base \o bytes, at |-> t]
        /\ valid_time' = IF full /\ ValidFrame(frame1) THEN t ELSE valid_time
        /\ ev' = Event("input", abandon, count0, req, Len(bytes), full,
                       Locked(t, st.last_frame_time))
        /\ feed' = FeedAfter(feed, partial_frame_count, t, now, rxlog.at, bytes)
        /\ strm' = StreamRead(strm, abandon, bytes)
        /\ UNCHANGED <<sbus_fd, PX4IO_INPUT_CHANNELS, twin, clk>>

\* The FMU link sends the report and clears system_state.fmu_report_due
\* (a step of the decoder specification).
fmu_report ==
    /\ fmu_report_due
    /\ fmu_report_due' = FALSE
    /\ ev' = NoEvent("report")
    /\ UNCHANGED <<sbus_fd, last_rx_time, last_frame_time, frame, partial_frame_count,
                   sbus_frame_drops, rc_channels, rc_channel_data,
                   rc_channels_timestamp, PX4IO_INPUT_CHANNELS, now, src, rxlog,
                   valid_time, feed, twin, clk, strm>>

\* The serial driver overruns: the rest of the frame being sent is lost.
rx_overrun ==
    /\ src.off < SBUS_FRAME_SIZE
    /\ src' = [src EXCEPT !.off = SBUS_FRAME_SIZE]
    /\ UNCHANGED <<sbus_fd, last_rx_time, last_frame_time, frame, partial_frame_count,
                   sbus_frame_drops, rc_channels, rc_channel_data,
                   rc_channels_timestamp, fmu_report_due, PX4IO_INPUT_CHANNELS, now,
                   rxlog, valid_time, ev, feed, twin, clk, strm>>

Init_call == \E opened \in BOOLEAN, t \in Instants : sbus_init(opened, t)
Input_call == \E t \in Instants, avail \in Avail, n \in StreamTemplates : sbus_input(t, avail, n)

Next == Init_call \/ Input_call \/ rx_overrun

Spec == Init /\ [][Next]_vars

\* The decoder on whole frames: every read delivers one complete frame of
\* the wide frame family.
Init_decode == \E opened \in BOOLEAN, t \in DecodeInstants : sbus_init(opened, t)
Input_decode == \E t \in DecodeInstants, n \in DecodeTemplates : sbus_input(t, SBUS_FRAME_SIZE, n)

NextDecode == Init_decode \/ Input_decode \/ fmu_report

InitDecode == InitStatics /\ PX4IO_INPUT_CHANNELS \in InputChannelConfigs

SpecDecode == InitDecode /\ [][NextDecode]_vars

\* Chunked delivery: the frames of the stream arrive in reads of any of the
\* chunk sizes, polled on a 1 ms grid.
Init_feed == \E opened \in BOOLEAN, t \in FeedInstants : sbus_init(opened, t)
Input_feed == \E t \in FeedInstants, avail \in FeedAvail, n \in FeedTemplates : sbus_input(t, avail, n)

NextFeed == Init_feed \/ Input_feed

SpecFeed == Init /\ [][NextFeed]_vars

\* Two runs side by side.  The first run is the program, fed whole frames or
\* frames in two reads; the second run is sbus_decode applied to a decoder
\* state of its own, on buffers and at times chosen independently.
twin_decode(t, n) ==
    /\ twin.decodes < MaxTwinDecodes
    /\ twin' = [st      |-> sbus_decode(twin.st, TemplateFrame[n], t, PX4IO_INPUT_CHANNELS),
                frame   |-> TemplateFrame[n],
                decodes |-> twin.decodes + 1]
    /\ UNCHANGED <<sbus_fd, last_rx_time, last_frame_time, frame, partial_frame_count,
                   sbus_frame_drops, rc_channels, rc_channel_data,
                   rc_channels_timestamp, fmu_report_due, PX4IO_INPUT_CHANNELS, now,
                   src, rxlog, valid_time, ev, feed, clk, strm>>

Input_twin == \E t \in DecodeInstants, avail \in TwinAvail, n \in TwinTemplates : sbus_input(t, avail, n)
Decode_twin == \E t \in DecodeInstants, n \in TwinTemplates : twin_decode(t, n)

NextTwin == Init_decode \/ Input_twin \/ Decode_twin

SpecTwin == InitDecode /\ [][NextTwin]_vars

\* The time tests alone: a timestamp stored at true time s is tested at true
\* time s + e, both read off the wrapping counter.
clock_test(s, e) ==
    /\ clk' = [stored  |-> s,
               elapsed |-> e,
               gap     |-> GapExceededWrapped(ClockRead(s + e), ClockRead(s)),
               locked  |-> LockedWrapped(ClockRead(s + e), ClockRead(s))]
    /\ UNCHANGED <<sbus_fd, last_rx_time, last_frame_time, frame, partial_frame_count,
                   sbus_frame_drops, rc_channels, rc_channel_data,
                   rc_channels_timestamp, fmu_report_due, PX4IO_INPUT_CHANNELS, now,
                   src, rxlog, valid_time, ev, feed, twin, strm>>

NextClock == \E s \in ClockStored, e \in ClockElapsed : clock_test(s, e)

SpecClock == Init /\ [][NextClock]_vars

(***************************************************************************)
(* Properties                                                              *)
(***************************************************************************)
\* The flag bits of byte[23] and the markers, read off the buffer arithmetically.
FlagBit(f, k) == (f[24] \div (2 ^ k)) % 2
MarkersOk(f) == f[1] = 15 /\ f[25] = 0
BothFailsafeBits(f) == FlagBit(f, 2) = 1 /\ FlagBit(f, 3) = 1
Decoded == ev.op = "input" /\ ev.decoded
SupportedChannels == IF PX4IO_INPUT_CHANNELS < 18 THEN PX4IO_INPUT_CHANNELS ELSE 18

\* C1: the sbus_input call that completes a frame passing the marker check and
\* the failsafe check returns true, and a call made more than 200000 us after
\* the last such decode returns false, whatever happened in between.
C1_LockStatus ==
    ev.op = "input" =>
        /\ (ev.decoded /\ ValidFrame(frame)) => ev.locked
        /\ (valid_time >= 0 /\ now - valid_time > 200000) => ~ev.locked

C1_Witness ==
    /\ ev.op = "input"
    /\ ev.decoded
    /\ ~ValidFrame(frame)
    /\ sbus_frame_drops > 0
    /\ valid_time >= 0
    /\ now - valid_time > 200000
    /\ ~ev.locked

\* C2: sbus_input returns locked = true if and only if some frame passing both
\* checks has been decoded and the most recent one is less than 200 ms old;
\* with no valid frame decoded yet it returns false.
C2_LockedIffRecentValid ==
    ev.op = "input" => (ev.locked <=> (valid_time >= 0 /\ now - valid_time < 200000))

\* C3: with 1 to 24 bytes accumulated, an sbus_input call made more than 3 ms
\* after the last byte-bearing read counts exactly one drop for the
\* abandonment and stores what it reads from buffer offset 0; every buffer
\* decoded is exactly the bytes delivered since the last discard point, so it
\* holds nothing of an abandoned partial frame.
C3_GapResync ==
    [][ /\ (/\ ev'.op = "input"
            /\ partial_frame_count \in 1..24
            /\ now' - rxlog.at > 3000)
           => /\ ev'.abandoned
              /\ ev'.at = 0
              /\ sbus_frame_drops' = sbus_frame_drops + 1
                     + (IF ev'.decoded /\ ~MarkersOk(frame') THEN 1 ELSE 0)
              /\ partial_frame_count' = ev'.nread % 25
              /\ SubSeq(frame', 1, ev'.nread) = rxlog'.bytes
        /\ (ev'.op = "input" /\ ev'.decoded)
           => /\ Len(rxlog'.bytes) = 25
              /\ frame' = rxlog'.bytes
        /\ (ev'.op = "input" /\ Len(rxlog'.bytes) = 25) => ev'.decoded
      ]_vars

C3_Witness ==
    /\ Decoded
    /\ ev.abandoned
    /\ ev.nread = 25
    /\ sbus_frame_drops = 1
    /\ ValidFrame(frame)
    /\ frame = TemplateFrame[src.cur]
    /\ rc_channels = 18

\* C4: when sbus_decode is given a buffer with byte[0] != 0x0F or
\* byte[24] != 0x00 the drop counter increases by exactly 1 and the channel
\* values, channel count, channel timestamp, report-due flag and
\* last-good-frame timestamp are unchanged.
C4_CorruptFrame ==
    [][ (ev'.op = "input" /\ ev'.decoded /\ ~MarkersOk(frame'))
        => /\ sbus_frame_drops' = sbus_frame_drops + 1 + (IF ev'.abandoned THEN 1 ELSE 0)
           /\ rc_channel_data' = rc_channel_data
           /\ rc_channels' = rc_channels
           /\ rc_channels_timestamp' = rc_channels_timestamp
           /\ fmu_report_due' = fmu_report_due
           /\ last_frame_time' = last_frame_time
      ]_vars

C4_Witness ==
    /\ Decoded
    /\ frame[1] # 15
    /\ frame[25] = 0
    /\ sbus_frame_drops = 1
    /\ rc_channels > 0
    /\ fmu_report_due
    /\ last_frame_time < now

\* C5 as stated: for every 25-byte buffer with bits 2 and 3 of byte[23] set,
\* the channel count after decoding it is 0.
C5_AnyBufferFailsafe ==
    (Decoded /\ BothFailsafeBits(frame)) => rc_channels = 0

\* C5 amended: for every buffer with byte[0] = 0x0F and byte[24] = 0x00 in
\* which bits 2 and 3 of byte[23] are set, the channel count after decoding
\* it is 0, whatever the other bytes and the count reported before.
C5_MarkedBufferFailsafe ==
    (Decoded /\ MarkersOk(frame) /\ BothFailsafeBits(frame)) => rc_channels = 0

C5_Witness ==
    /\ Decoded
    /\ MarkersOk(frame)
    /\ BothFailsafeBits(frame)
    /\ frame[24] = 15
    /\ rc_channels = 0
    /\ rc_channels_timestamp > 0

\* C6: a buffer with valid markers and exactly one of byte[23] bit 2 and bit 3
\* set decodes exactly like the same buffer with both bits clear: channels
\* populated, channel count min(18, supported), last-good-frame time updated,
\* and the call reports lock.
ClearFailsafeBits(f) == [f EXCEPT ![24] = f[24] - 4 * FlagBit(f, 2) - 8 * FlagBit(f, 3)]

C7_RoundTrip ==
    Decoded =>
        /\ frame = TemplateFrame[src.cur]
        /\ ValidFrame(frame) =>
               \A c \in 0..15 :
                   c < SupportedChannels =>
                       rc_channel_data[c] = (RawOf(src.cur)[c] \div 2) + 998

C7_Witness ==
    /\ Decoded
    /\ src.cur = Tmpl(7, 2047, 0, 0, 15, 0)
    /\ rc_channels = 18
    /\ rc_channel_data[6] = 998
    /\ rc_channel_data[7] = 2021
    /\ rc_channel_data[8] = 998

C9_SwitchChannels ==
    (Decoded /\ ValidFrame(frame) /\ PX4IO_INPUT_CHANNELS > 17) =>
        /\ rc_channel_data[16] = (IF FlagBit(frame, 0) = 1 THEN 1998 ELSE 998)
        /\ rc_channel_data[17] = (IF FlagBit(frame, 1) = 1 THEN 1998 ELSE 998)

\* C10: the accumulated count is in 0..24 at every return from sbus_input;
\* every read requests 1..25 bytes and stores inside the 25-byte buffer; the
\* decoder runs exactly when the count reaches 25, and the count is 0 after it.
C10_AccumulationBound ==
    /\ partial_frame_count \in 0..24
    /\ ev.op = "input" =>
        /\ ev.req \in 1..25
        /\ ev.at \in 0..24
        /\ ev.nread <= ev.req
        /\ ev.at + ev.nread <= 25
        /\ ev.decoded <=> (ev.at + ev.nread = 25)
        /\ ev.decoded => partial_frame_count = 0
        /\ ~ev.decoded => partial_frame_count = ev.at + ev.nread

C10_Witness ==
    /\ Decoded
    /\ ev.at = 13
    /\ ev.req = 12
    /\ ev.nread = 12
    /\ partial_frame_count = 0

\* A step that is one sbus_input call (every call reads a later clock value).
InputStep == ev'.op = "input" /\ now' > now

\* C11: decoding a buffer with valid markers and both failsafe bits set changes
\* only the channel count, to 0: the channel values, the channel timestamp,
\* the report-due flag, the drop counter (beyond an abandonment counted by the
\* same call before the read) and the last-good-frame timestamp are
\* unchanged; the call returns the lock status of the unchanged
\* last-good-frame timestamp, so it returns false from 200 ms after the last
\* valid frame on.
C11_FailsafeFrame ==
    [][ (/\ InputStep
         /\ ev'.decoded
         /\ MarkersOk(frame')
         /\ BothFailsafeBits(frame'))
        => /\ rc_channels' = 0
           /\ rc_channel_data' = rc_channel_data
           /\ rc_channels_timestamp' = rc_channels_timestamp
           /\ fmu_report_due' = fmu_report_due
           /\ sbus_frame_drops' = sbus_frame_drops + (IF ev'.abandoned THEN 1 ELSE 0)
           /\ last_frame_time' = last_frame_time
           /\ valid_time' = valid_time
           /\ ev'.locked <=> (now' - last_frame_time < 200000)
           /\ (valid_time >= 0 /\ now' - valid_time >= 200000) => ~ev'.locked
      ]_vars

C11_Witness ==
    /\ Decoded
    /\ MarkersOk(frame)
    /\ BothFailsafeBits(frame)
    /\ rc_channels = 0
    /\ rc_channel_data[0] = 1510
    /\ rc_channels_timestamp = valid_time
    /\ valid_time >= 0
    /\ now - valid_time >= 200000
    /\ sbus_frame_drops = 0
    /\ ~ev.locked

\* What C12 promises of a delivery whose timing is in order: while fewer than
\* 25 bytes are delivered nothing is decoded and the buffer holds exactly the
\* delivered bytes; the read that delivers the 25th byte decodes exactly the
\* 25 delivered bytes in order, once, and a payload with channel 0 = 1024
\* gives channel 0 = 1510.
Delivered(in_order) ==
    (ev.op = "input" /\ in_order /\ Len(feed.bytes) > 0) =>
        IF Len(feed.bytes) < SBUS_FRAME_SIZE
        THEN /\ ~ev.decoded
             /\ ~ev.abandoned
             /\ partial_frame_count = Len(feed.bytes)
             /\ SubSeq(frame, 1, partial_frame_count) = feed.bytes
        ELSE /\ ev.decoded
             /\ ~ev.abandoned
             /\ partial_frame_count = 0
             /\ frame = feed.bytes
             /\ ValidFrame(feed.bytes) =>
                    /\ rc_channels_timestamp = now
                    /\ last_frame_time = now
                    /\ ev.locked
             /\ feed.bytes = TemplateFrame[GoodFrame] => rc_channel_data[0] = 1510

\* C12 as stated: starting with no bytes accumulated, the 25 bytes of a frame
\* delivered in any split into reads of 1..25 bytes, interleaved with any
\* number of empty reads and with no gap above 3 ms between one sbus_input
\* call and the next, are decoded once, in order.
C12_ChunkingCallGaps == Delivered(feed.calls_ok)

\* C12 amended: the same, when no sbus_input call of the delivery comes more
\* than 3 ms after the last read that returned bytes.
C12_ChunkingByteGaps == Delivered(feed.rx_ok)

C12_Witness ==
    /\ Decoded
    /\ feed.rx_ok
    /\ feed.bytes = TemplateFrame[GoodFrame]
    /\ frame = feed.bytes
    /\ ev.at = 22
    /\ ev.nread = 3
    /\ rc_channel_data[0] = 1510
    /\ sbus_frame_drops = 0

\* C13: an sbus_input call whose read fails or returns no byte, and in which
\* the 3 ms rule abandons nothing, changes no state: the accumulated count,
\* the buffer, the last-byte time, the last-good-frame time, the drop counter
\* and the channel outputs are as before, and the call returns the lock
\* status of the unchanged last-good-frame time.
C13_IdleRead ==
    [][ (InputStep /\ ev'.nread = 0 /\ ~ev'.abandoned)
        => /\ partial_frame_count' = partial_frame_count
           /\ frame' = frame
           /\ last_rx_time' = last_rx_time
           /\ last_frame_time' = last_frame_time
           /\ sbus_frame_drops' = sbus_frame_drops
           /\ rc_channels' = rc_channels
           /\ rc_channel_data' = rc_channel_data
           /\ rc_channels_timestamp' = rc_channels_timestamp
           /\ fmu_report_due' = fmu_report_due
           /\ sbus_fd' = sbus_fd
           /\ ~ev'.decoded
           /\ ev'.locked <=> (now' - last_frame_time < 200000)
      ]_vars

C13_Witness ==
    /\ ev.op = "input"
    /\ ev.nread = 0
    /\ ~ev.abandoned
    /\ sbus_fd >= 0
    /\ partial_frame_count = 13
    /\ now = last_rx_time + 3000
    /\ rc_channels = 18
    /\ ev.locked

\* C14: the dropped-frame counter never decreases over sbus_init, sbus_input
\* and the decodes they run, and a step changes it only by the drop events it
\* contains: one for a partial frame abandoned on a gap above 3 ms, one for a
\* full buffer rejected for a bad start or end marker.
C14_DropsMonotonic ==
    [][ LET abandoned == InputStep /\ partial_frame_count > 0 /\ now' - rxlog.at > 3000
            rejected  == InputStep /\ Len(rxlog'.bytes) = 25 /\ ev'.nread > 0
                         /\ ~MarkersOk(rxlog'.bytes)
        IN  /\ sbus_frame_drops' >= sbus_frame_drops
            /\ sbus_frame_drops' - sbus_frame_drops
                   = (IF abandoned THEN 1 ELSE 0) + (IF rejected THEN 1 ELSE 0)
      ]_vars

C14_Witness ==
    /\ ev.op = "init"
    /\ sbus_fd >= 0
    /\ partial_frame_count = 0
    /\ last_rx_time = now
    /\ sbus_frame_drops = 2
    /\ ~MarkersOk(frame)

\* C15: after sbus_decode(frame_time) of a buffer with valid markers and not
\* both failsafe bits set, the channel count is min(18, supported channels),
\* the channel timestamp and the last-good-frame timestamp are frame_time and
\* the report-due flag is true; no other step of the module sets the
\* report-due flag.
C15_DecodeRecord ==
    [][ /\ (InputStep /\ ev'.decoded /\ MarkersOk(frame') /\ ~BothFailsafeBits(frame'))
           => /\ rc_channels' = (IF PX4IO_INPUT_CHANNELS < 18 THEN PX4IO_INPUT_CHANNELS ELSE 18)
              /\ rc_channels_timestamp' = now'
              /\ last_frame_time' = now'
              /\ fmu_report_due'
        /\ (fmu_report_due' /\ ~fmu_report_due)
           => (InputStep /\ ev'.decoded /\ MarkersOk(frame') /\ ~BothFailsafeBits(frame'))
      ]_vars

C15_Witness ==
    /\ Decoded
    /\ MarkersOk(frame)
    /\ ~BothFailsafeBits(frame)
    /\ PX4IO_INPUT_CHANNELS = 20
    /\ rc_channels = 18
    /\ rc_channels_timestamp = 9000
    /\ last_frame_time = 9000
    /\ now = 9000
    /\ fmu_report_due

\* C16: two runs with different prior histories (earlier channel values,
\* counters, timestamps, accumulated bytes) that decode the same 25-byte
\* buffer with valid markers and both failsafe bits clear end with the same
\* channel count and the same value in every decoded channel.
C16_Determinism ==
    (/\ Decoded
     /\ MarkersOk(frame)
     /\ FlagBit(frame, 2) = 0
     /\ FlagBit(frame, 3) = 0
     /\ twin.decodes > 0
     /\ twin.frame = frame)
    => /\ twin.st.rc_channels = rc_channels
       /\ \A c \in 0..17 : c < rc_channels => twin.st.rc_channel_data[c] = rc_channel_data[c]

C16_Witness ==
    /\ Decoded
    /\ ev.at = 13
    /\ frame = TemplateFrame[Tmpl(7, 2047, 0, 0, 15, 0)]
    /\ twin.frame = frame
    /\ twin.decodes = 2
    /\ twin.st.drops = 1
    /\ sbus_frame_drops = 0
    /\ twin.st.rc_channels_timestamp < rc_channels_timestamp
    /\ rc_channels = 18
    /\ rc_channel_data[7] = 2021
    /\ twin.st.rc_channel_data[7] = 2021

\* C17: on a clock that is an unsigned counter modulo 2^w, the 3 ms
\* abandonment test and the 200 ms lock test give the result they give on an
\* unbounded clock whenever the true elapsed time is below 2^w, also when the
\* counter wrapped between the stored timestamp and now.
C17_WrapSafe ==
    clk.elapsed < ClockMod =>
        /\ clk.gap = GapExceeded(clk.stored + clk.elapsed, clk.stored)
        /\ clk.locked = Locked(clk.stored + clk.elapsed, clk.stored)

C17_Witness ==
    /\ clk.stored = ClockMod - 1
    /\ clk.elapsed = 3001
    /\ ClockRead(clk.stored + clk.elapsed) < ClockRead(clk.stored)
    /\ clk.gap
    /\ clk.locked

\* C18: an sbus_input call abandons the partial frame (drop counter + 1, count
\* reset to 0 before the read) if and only if at least one byte is accumulated
\* and now minus the time of the last read that returned bytes is strictly
\* above 3000 us: a gap of exactly 3000 us abandons nothing, an empty buffer
\* counts no drop whatever the gap, and a read that returns nothing leaves the
\* last-byte time as it was.
C18_ExactAbandonment ==
    [][ InputStep =>
          LET expired == partial_frame_count > 0 /\ now' - rxlog.at > 3000
              bad     == ev'.decoded /\ ~MarkersOk(frame')
          IN  /\ ev'.abandoned <=> expired
              /\ ev'.at = (IF expired THEN 0 ELSE partial_frame_count)
              /\ sbus_frame_drops' = sbus_frame_drops + (IF expired THEN 1 ELSE 0)
                                                      + (IF bad THEN 1 ELSE 0)
              /\ (partial_frame_count > 0 /\ now' - rxlog.at = 3000) => ~ev'.abandoned
              /\ partial_frame_count = 0 => ~ev'.abandoned
              /\ ev'.nread = 0 => (last_rx_time' = last_rx_time /\ rxlog'.at = rxlog.at)
              /\ ev'.nread > 0 => (last_rx_time' = now' /\ rxlog'.at = now')
              /\ partial_frame_count' > 0 => last_rx_time' = rxlog'.at
      ]_vars

C18_Witness ==
    /\ ev.op = "input"
    /\ ev.abandoned
    /\ ev.nread = 0
    /\ now - rxlog.at = 4000
    /\ now - last_rx_time = 4000
    /\ partial_frame_count = 0
    /\ sbus_frame_drops = 1

\* C19: every buffer handed to the decoder is the last 25 bytes read from the
\* stream, consecutive and in arrival order, and exactly 25 bytes were read
\* since the most recent abandonment or decode, so the buffer shares no byte
\* with an earlier decoded buffer or with an abandoned partial frame; between
\* decodes the buffer holds exactly the bytes read since that point.
C19_NoByteReused ==
    [][ InputStep =>
          /\ ev'.decoded <=> (strm'.since = 25 /\ ev'.nread > 0)
          /\ ev'.decoded => frame' = strm'.tail
          /\ ~ev'.decoded =>
                 /\ strm'.since = partial_frame_count'
                 /\ strm'.since < 25
                 /\ SubSeq(frame', 1, partial_frame_count') = Suffix(strm'.tail, strm'.since)
          /\ ev'.abandoned => strm'.since = ev'.nread
      ]_vars

C19_Witness ==
    /\ Decoded
    /\ ev.abandoned
    /\ ev.nread = 25
    /\ strm.since = 25
    /\ frame = strm.tail
    /\ frame # TemplateFrame[src.cur]
    /\ sbus_frame_drops = 2

====
